---- MODULE Spec2Model ----
(***************************************************************************)
(* A model of backend/app.py of nyc-transit-hub: the alert classifier      *)
(* (get_route_status_from_alerts), the service status endpoint with its    *)
(* sqlite cache (get_service_status), the arrivals endpoint (get_arrivals) *)
(* and the static schedule loader / route topology builder                 *)
(* (download_gtfs_static, parse_gtfs_static, get_route_polylines).         *)
(*                                                                         *)
(* The three request handlers are modelled independently, each under its   *)
(* own specification (SpecStatus, SpecArrivals, SpecStatic); SpecClassify  *)
(* runs the alert classifier alone over a wider choice of alert texts,     *)
(* SpecDownload calls download_gtfs_static alone, with and without force,  *)
(* and SpecConcurrent serves two polylines requests at once. The variables *)
(* of the handlers a specification does not run stay idle.                 *)
(***************************************************************************)
EXTENDS Integers, Sequences, FiniteSets, TLC

VARIABLES
    \* ---- /api/service-status -------------------------------------------
    alertsUpstream,   \* what MTA_ALERTS_FEED serves now: a feed, or Unavailable
    spc,              \* position of the get_service_status handler
    feed,             \* the decoded FeedMessage (or None) of this request
    ei,               \* index of the entity the outer loop is at (line 133)
    ii,               \* index of the informed_entity the inner loop is at (line 138)
    route_status,     \* route_id -> [status, messages]           (line 126)
    service_data,     \* the rows built for the response          (line 243)
    cache,            \* committed rows of table service_status_cache
    next_id,          \* the table's AUTOINCREMENT counter
    requests,         \* number of requests served so far (the wall clock of updated_at)
    live_failed,      \* whether this request's live computation raised
    cache_readable,   \* whether the fallback's SELECT succeeded
    response,         \* the JSON response of this request, or NoResponse
    \* ---- /api/arrivals/<station_id> ------------------------------------
    station_id,       \* the station asked for
    apc,              \* position of the get_arrivals handler
    fi,               \* index in MTA_FEEDS of the feed the loop is at (line 426)
    arrivals,         \* the list collected, then sorted and cut (line 423)
    clock,            \* the wall clock, in unix seconds
    fetched,          \* history: what each fetch returned and when it returned
    emitted,          \* history: each arrival appended, with the times it was computed from
    aresponse,        \* the JSON response of the arrivals request
    \* ---- /api/route-polylines ------------------------------------------
    staticUpstream,   \* what GTFS_STATIC_URL serves now: an archive, or a failure
    zip_file,         \* the file at GTFS_ZIP_PATH: whether it exists, its content, its mtime
    wall,             \* time.time(), in seconds
    ppc,              \* position of the get_route_polylines handler
    zip_path,         \* what download_gtfs_static returned: a path (TRUE) or None (FALSE)
    route_polylines,  \* route_id -> {id, name, coordinates}, in insertion order
    stops_list,       \* the stops with the lines serving them
    representative,   \* history: route_id -> the stop sequence chosen as best (line 555)
    polyline_stops,   \* history: route_id -> the stop ids whose coordinates were appended
    presponse,        \* the JSON response of the polylines request
    prequests,        \* number of polylines requests so far
    force,            \* the argument of this call of download_gtfs_static (line 464)
    calls,            \* number of calls of download_gtfs_static so far
    downloads,        \* history: each requests.get of the archive, its time and outcome
    \* ---- a second /api/route-polylines request, running concurrently ---
    wpc,              \* position of the second request
    wresp,            \* the body its requests.get returned (line 472)
    wzip_path,        \* what its download_gtfs_static returned
    wresponse         \* its JSON response

statusVars == <<alertsUpstream, spc, feed, ei, ii, route_status, service_data,
                cache, next_id, requests, live_failed, cache_readable, response>>

arrivalVars == <<station_id, apc, fi, arrivals, clock, fetched, emitted, aresponse>>

writerVars == <<wpc, wresp, wzip_path, wresponse>>

staticVars == <<staticUpstream, zip_file, wall, ppc, zip_path, route_polylines,
                stops_list, representative, polyline_stops, presponse, prequests,
                force, calls, downloads, writerVars>>

vars == <<statusVars, arrivalVars, staticVars>>

(***************************************************************************)
(* Bounds of the model.                                                    *)
(***************************************************************************)
MaxAlerts == 3        \* entities in one alerts feed
MaxRequests == 2      \* /api/service-status requests served in one run

(***************************************************************************)
(* Strings: Python's str operations, on TLA+ strings.                      *)
(***************************************************************************)
Min(a, b) == IF a <= b THEN a ELSE b
Max(a, b) == IF a >= b THEN a ELSE b

\* s[:n]
Truncate(s, n) == SubSeq(s, 1, Min(n, Len(s)))

\* kw in s
Contains(s, kw) ==
    \E i \in 1..(Len(s) - Len(kw) + 1) : SubSeq(s, i, i + Len(kw) - 1) = kw

LowerChar(c) ==
    CASE c = "A" -> "a" [] c = "B" -> "b" [] c = "C" -> "c" [] c = "D" -> "d"
      [] c = "E" -> "e" [] c = "F" -> "f" [] c = "G" -> "g" [] c = "H" -> "h"
      [] c = "I" -> "i" [] c = "J" -> "j" [] c = "K" -> "k" [] c = "L" -> "l"
      [] c = "M" -> "m" [] c = "N" -> "n" [] c = "O" -> "o" [] c = "P" -> "p"
      [] c = "Q" -> "q" [] c = "R" -> "r" [] c = "S" -> "s" [] c = "T" -> "t"
      [] c = "U" -> "u" [] c = "V" -> "v" [] c = "W" -> "w" [] c = "X" -> "x"
      [] c = "Y" -> "y" [] c = "Z" -> "z" [] OTHER -> c

\* s.lower(), character by character (split in halves to keep the recursion shallow)
RECURSIVE Lower(_)
Lower(s) ==
    IF Len(s) = 0 THEN s
    ELSE IF Len(s) = 1 THEN LowerChar(s)
    ELSE LET h == Len(s) \div 2
         IN  Lower(SubSeq(s, 1, h)) \o Lower(SubSeq(s, h + 1, Len(s)))

(***************************************************************************)
(* Program constants.                                                      *)
(***************************************************************************)
HeaderMax == 200      \* header[:200]
DescriptionMax == 1000  \* description[:1000]
TextMax == 300        \* combined_text[:300]

\* the five characters the f-string puts between header and description
Separator == " ~~~ "

\* what fetch_gtfs_feed returns: the decoded FeedMessage (line 118) or None (line 121)
FeedMessage(entity) == [ok |-> TRUE, entity |-> entity]
Unavailable == [ok |-> FALSE, entity |-> <<>>]

\* no response sent yet
NoResponse == [success |-> FALSE, data |-> <<>>, cached |-> FALSE, http |-> 0]

status_priority(s) ==
    CASE s = "service-change" -> 2 [] s = "delay" -> 1 [] s = "good" -> 0

\* all_lines, in insertion order
AllLineIds ==
    <<"1", "2", "3", "4", "5", "6", "7", "A", "B", "C", "D", "E", "F", "G",
      "J", "L", "M", "N", "Q", "R", "W", "Z", "SI", "S">>

LineName(id) ==
    CASE id = "SI" -> "Staten Island Railway"
      [] id = "S" -> "Shuttle (S)"
      [] OTHER -> id \o " Line"

(***************************************************************************)
(* get_route_status_from_alerts: one message of one informed entity.       *)
(***************************************************************************)
\* alert.header_text.translation[0].text, or "" (lines 143-149)
FirstTranslation(translations) ==
    IF translations # <<>> THEN translations[1] ELSE ""

\* lines 152-159
CombinedText(header, description) ==
    IF header # "" /\ description # "" THEN header \o Separator \o description
    ELSE IF header # "" THEN header
    ELSE IF description # "" THEN description
    ELSE "Service alert"

\* lines 166-175: the if/elif chain over the lowered text t
KeywordSeverity(t) ==
    IF Contains(t, "suspended") \/ Contains(t, "no service") \/ Contains(t, "not operating")
    THEN "service-change"
    ELSE IF Contains(t, "delayed") \/ Contains(t, "delay") \/ Contains(t, "running behind")
    THEN "delay"
    ELSE IF Contains(t, "skip") \/ Contains(t, "skips") \/ Contains(t, "skip stops")
    THEN "service-change"
    ELSE IF Contains(t, "express") /\ (Contains(t, "running") \/ Contains(t, "skip"))
    THEN "service-change"
    ELSE IF Contains(t, "modified schedule") \/ Contains(t, "adjusted schedule")
    THEN "service-change"
    ELSE "good"

\* The mutant of Severity: the keywords are looked up in the displayed (truncated) text.
SeverityOfDisplayedText(combined_text) ==
    KeywordSeverity(Lower(Truncate(combined_text, TextMax)))

\* lines 162-163: status of combined_text.lower()
Severity(combined_text) == KeywordSeverity(Lower(combined_text))

\* lines 185-190: the message dict
Message(alert) ==
    LET header == FirstTranslation(alert.header_text)
        description == FirstTranslation(alert.description_text)
        combined_text == CombinedText(header, description)
    IN  [header |-> Truncate(header, HeaderMax),
         description |-> Truncate(description, DescriptionMax),
         text |-> Truncate(combined_text, TextMax),
         status |-> Severity(combined_text)]

\* The mutant of WorstStatus: the route takes the status of its latest message.
LatestStatus(current, status) == status

\* lines 193-195: the route keeps the worse of its status and the new message's
WorstStatus(current, status) ==
    IF status_priority(status) > status_priority(current) THEN status ELSE current

\* lines 178-195: fold one message into route_status
FoldMessage(rs, route_id, msg) ==
    LET old == IF route_id \in DOMAIN rs THEN rs[route_id]
               ELSE [status |-> "good", messages |-> <<>>]
        new == [status |-> WorstStatus(old.status, msg.status),
                messages |-> Append(old.messages, msg)]
    IN  [r \in DOMAIN rs \cup {route_id} |-> IF r = route_id THEN new ELSE rs[r]]

EmptyMap == <<>>

\* The mutant of GoodServiceRow: the route is emitted as if it had an alert
\* without messages.
PlaceholderRow(route_id) ==
    [id |-> route_id, name |-> LineName(route_id), type |-> "subway",
     status |-> "good", message |-> "Service alert", messages |-> <<>>]

\* lines 261-268: a catalog route the alerts do not mention
GoodServiceRow(route_id) ==
    [id |-> route_id, name |-> LineName(route_id), type |-> "subway",
     status |-> "good", message |-> "Good Service",
     messages |-> <<[header |-> "Good Service", description |-> "",
                     text |-> "Good Service", status |-> "good"]>>]

\* lines 248-257: a catalog route the alerts mention
AlertRow(route_id, status_info) ==
    [id |-> route_id, name |-> LineName(route_id), type |-> "subway",
     status |-> status_info.status,
     message |-> IF status_info.messages # <<>> THEN status_info.messages[1].text
                 ELSE "Service alert",
     messages |-> status_info.messages]

\* lines 246-268: the loop over all_lines
BuildServiceData(rs) ==
    [i \in 1..Len(AllLineIds) |->
        IF AllLineIds[i] \in DOMAIN rs THEN AlertRow(AllLineIds[i], rs[AllLineIds[i]])
        ELSE GoodServiceRow(AllLineIds[i])]

\* '|'.join(msg['text'] for msg in messages), line 275
RECURSIVE JoinTexts(_)
JoinTexts(messages) ==
    IF messages = <<>> THEN ""
    ELSE IF Len(messages) = 1 THEN messages[1].text
    ELSE messages[1].text \o "|" \o JoinTexts(Tail(messages))

\* The rows of the table that conflict with a new row: those equal to it on a
\* PRIMARY KEY or UNIQUE column. The table declares id INTEGER PRIMARY KEY
\* AUTOINCREMENT and no UNIQUE column (lines 82-90).
Conflicts(old, new) == old.id = new.id

\* INSERT OR REPLACE of one row (lines 276-280); the INSERT names no id, so the
\* row takes the next AUTOINCREMENT value.
InsertOrReplace(rows, id, service, now) ==
    LET new == [id |-> id, route_id |-> service.id, status |-> service.status,
                message |-> JoinTexts(service.messages), updated_at |-> now]
    IN  SelectSeq(rows, LAMBDA old : ~Conflicts(old, new)) \o <<new>>

\* lines 273-280: one INSERT OR REPLACE per row of service_data, in order
RECURSIVE WriteRows(_, _, _, _, _)
WriteRows(rows, id, data, k, now) ==
    IF k > Len(data) THEN rows
    ELSE WriteRows(InsertOrReplace(rows, id, data[k], now), id + 1, data, k + 1, now)

\* line 286
LiveResponse(data) ==
    [success |-> TRUE, data |-> data, cached |-> FALSE, http |-> 200]

\* line 305
ErrorResponse == [success |-> FALSE, data |-> <<>>, cached |-> FALSE, http |-> 500]

\* The mutant of FallbackResponse: the fallback gives up although rows are cached.
FallbackGivesUp(cached) == ErrorResponse

\* lines 299-305: cached rows, if any, else the error
FallbackResponse(cached) ==
    IF cached # <<>>
    THEN [success |-> TRUE, data |-> cached, cached |-> TRUE, http |-> 200]
    ELSE ErrorResponse

\* no service status request is running
StatusIdle ==
    /\ alertsUpstream = Unavailable
    /\ spc = "idle"
    /\ feed = Unavailable
    /\ ei = 1
    /\ ii = 1
    /\ route_status = EmptyMap
    /\ service_data = <<>>
    /\ cache = <<>>
    /\ next_id = 1
    /\ requests = 0
    /\ live_failed = FALSE
    /\ cache_readable = TRUE
    /\ response = NoResponse

\* no arrivals request is running
ArrivalsIdle ==
    /\ station_id = ""
    /\ apc = "idle"
    /\ fi = 1
    /\ arrivals = <<>>
    /\ clock = 0
    /\ fetched = <<>>
    /\ emitted = <<>>
    /\ aresponse = [success |-> FALSE, station_id |-> "", arrivals |-> <<>>, http |-> 0]

\* an archive: the rows of its three tables
Archive(stops, trips, stop_times) ==
    [stops |-> stops, trips |-> trips, stop_times |-> stop_times]

NoArchive == Archive(<<>>, <<>>, <<>>)
NoFile == [exists |-> FALSE, archive |-> NoArchive, complete |-> FALSE, mtime |-> 0]
NoPolylines == [success |-> FALSE, routes |-> <<>>, stops |-> <<>>, http |-> 0]

\* no second polylines request is running
WriterIdle ==
    /\ wpc = "idle"
    /\ wresp = NoArchive
    /\ wzip_path = FALSE
    /\ wresponse = NoPolylines

\* no polylines request is running
StaticIdle ==
    /\ staticUpstream = [ok |-> FALSE, archive |-> NoArchive]
    /\ zip_file = NoFile
    /\ wall = 0
    /\ ppc = "idle"
    /\ zip_path = FALSE
    /\ route_polylines = <<>>
    /\ stops_list = <<>>
    /\ representative = <<>>
    /\ polyline_stops = <<>>
    /\ presponse = NoPolylines
    /\ prequests = 0
    /\ force = FALSE
    /\ calls = 0
    /\ downloads = <<>>
    /\ WriterIdle

(***************************************************************************)
(* The alerts feeds of the service status specification.                   *)
(***************************************************************************)
Route(id) == [has_route_id |-> TRUE, route_id |-> id]
NoRoute == [has_route_id |-> FALSE, route_id |-> ""]

Alert(header_text, description_text, informed_entity) ==
    [is_alert |-> TRUE, header_text |-> header_text,
     description_text |-> description_text, informed_entity |-> informed_entity]

\* an entity that holds a trip update and no alert
TripUpdateEntity ==
    [is_alert |-> FALSE, header_text |-> <<>>, description_text |-> <<>>,
     informed_entity |-> <<>>]

StatusEntities ==
    { Alert(<<"Delays on the A">>, <<>>, <<Route("A")>>),
      Alert(<<"No service", "Sin servicio">>, <<"Trains are suspended">>,
            <<NoRoute, Route("A"), Route("SI")>>),
      Alert(<<>>, <<>>, <<Route("A"), Route("GS")>>),
      TripUpdateEntity }

RECURSIVE SeqsUpTo(_, _)
SeqsUpTo(S, n) ==
    IF n = 0 THEN {<<>>}
    ELSE LET shorter == SeqsUpTo(S, n - 1)
         IN  shorter \cup {Append(q, x) : q \in shorter, x \in S}

StatusFeeds ==
    {FeedMessage(entity) : entity \in SeqsUpTo(StatusEntities, MaxAlerts)} \cup {Unavailable}

(***************************************************************************)
(* GET /api/service-status                                                 *)
(***************************************************************************)
InitStatus ==
    /\ alertsUpstream \in StatusFeeds
    /\ spc = "start"
    /\ feed = Unavailable
    /\ ei = 1
    /\ ii = 1
    /\ route_status = EmptyMap
    /\ service_data = <<>>
    /\ cache = <<>>
    /\ next_id = 1
    /\ requests = 1
    /\ live_failed = FALSE
    /\ cache_readable = TRUE
    /\ response = NoResponse
    /\ ArrivalsIdle /\ StaticIdle

\* lines 126-131: fetch the alerts feed; None gives the empty mapping
FetchAlerts ==
    /\ spc = "start"
    /\ feed' = alertsUpstream
    /\ route_status' = EmptyMap
    /\ ei' = 1
    /\ ii' = 1
    /\ spc' = IF ~alertsUpstream.ok THEN "build" ELSE "fold"
    /\ UNCHANGED <<alertsUpstream, service_data, cache, next_id, requests,
                   live_failed, cache_readable, response>>
    /\ UNCHANGED <<arrivalVars, staticVars>>

\* lines 138-195: one informed_entity of the alert the outer loop is at
FoldInformed ==
    /\ spc = "fold"
    /\ ei <= Len(feed.entity)
    /\ feed.entity[ei].is_alert
    /\ ii <= Len(feed.entity[ei].informed_entity)
    /\ route_status' =
          IF feed.entity[ei].informed_entity[ii].has_route_id
          THEN FoldMessage(route_status, feed.entity[ei].informed_entity[ii].route_id,
                           Message(feed.entity[ei]))
          ELSE route_status
    /\ ii' = ii + 1
    /\ UNCHANGED <<alertsUpstream, spc, feed, ei, service_data, cache, next_id,
                   requests, live_failed, cache_readable, response>>
    /\ UNCHANGED <<arrivalVars, staticVars>>

\* lines 133-134: the next entity, when this one is no alert or is exhausted
NextEntity ==
    /\ spc = "fold"
    /\ ei <= Len(feed.entity)
    /\ ~feed.entity[ei].is_alert \/ ii > Len(feed.entity[ei].informed_entity)
    /\ ei' = ei + 1
    /\ ii' = 1
    /\ UNCHANGED <<alertsUpstream, spc, feed, route_status, service_data, cache,
                   next_id, requests, live_failed, cache_readable, response>>
    /\ UNCHANGED <<arrivalVars, staticVars>>

\* lines 197-198: the loop is over, route_status is returned
FoldDone ==
    /\ spc = "fold"
    /\ ei > Len(feed.entity)
    /\ spc' = "build"
    /\ UNCHANGED <<alertsUpstream, feed, ei, ii, route_status, service_data, cache,
                   next_id, requests, live_failed, cache_readable, response>>
    /\ UNCHANGED <<arrivalVars, staticVars>>

\* lines 243-268
BuildStatus ==
    /\ spc = "build"
    /\ service_data' = BuildServiceData(route_status)
    /\ spc' = "cache"
    /\ UNCHANGED <<alertsUpstream, feed, ei, ii, route_status, cache, next_id,
                   requests, live_failed, cache_readable, response>>
    /\ UNCHANGED <<arrivalVars, staticVars>>

\* lines 271-282: every row written, then the commit
CacheCommit ==
    /\ spc = "cache"
    /\ cache' = WriteRows(cache, next_id, service_data, 1, requests)
    /\ next_id' = next_id + Len(service_data)
    /\ spc' = "respond"
    /\ UNCHANGED <<alertsUpstream, feed, ei, ii, route_status, service_data,
                   requests, live_failed, cache_readable, response>>
    /\ UNCHANGED <<arrivalVars, staticVars>>

\* lines 271-281 raising (get_db, the k+1-th execute, or the commit): the k rows
\* written in the open transaction are never committed
CacheWriteFails ==
    /\ spc = "cache"
    /\ \E k \in 0..Len(service_data) :
          cache' = SubSeq(WriteRows(cache, next_id, SubSeq(service_data, 1, k), 1, requests),
                          1, Len(cache))
    /\ live_failed' = TRUE
    /\ spc' = "fallback"
    /\ UNCHANGED <<alertsUpstream, feed, ei, ii, route_status, service_data, next_id,
                   requests, cache_readable, response>>
    /\ UNCHANGED <<arrivalVars, staticVars>>

\* line 286
RespondLive ==
    /\ spc = "respond"
    /\ response' = LiveResponse(service_data)
    /\ spc' = "done"
    /\ UNCHANGED <<alertsUpstream, feed, ei, ii, route_status, service_data, cache,
                   next_id, requests, live_failed, cache_readable>>
    /\ UNCHANGED <<arrivalVars, staticVars>>

\* lines 282-286 raising, after the commit
RespondLiveFails ==
    /\ spc = "respond"
    /\ live_failed' = TRUE
    /\ spc' = "fallback"
    /\ UNCHANGED <<alertsUpstream, feed, ei, ii, route_status, service_data, cache,
                   next_id, requests, cache_readable, response>>
    /\ UNCHANGED <<arrivalVars, staticVars>>

\* lines 292-305: the SELECT succeeds
FallbackRead ==
    /\ spc = "fallback"
    /\ cache_readable' = TRUE
    /\ response' = FallbackResponse(cache)
    /\ spc' = "done"
    /\ UNCHANGED <<alertsUpstream, feed, ei, ii, route_status, service_data, cache,
                   next_id, requests, live_failed>>
    /\ UNCHANGED <<arrivalVars, staticVars>>

\* lines 292-305: get_db or the SELECT raises, the bare except swallows it
FallbackReadFails ==
    /\ spc = "fallback"
    /\ cache_readable' = FALSE
    /\ response' = ErrorResponse
    /\ spc' = "done"
    /\ UNCHANGED <<alertsUpstream, feed, ei, ii, route_status, service_data, cache,
                   next_id, requests, live_failed>>
    /\ UNCHANGED <<arrivalVars, staticVars>>

\* the next request arrives; by then the alerts endpoint serves the same feed,
\* or the alerts have been cleared, or the endpoint is down
NextStatusRequest ==
    /\ spc = "done"
    /\ requests < MaxRequests
    /\ requests' = requests + 1
    /\ alertsUpstream' \in {alertsUpstream, FeedMessage(<<>>), Unavailable}
    /\ spc' = "start"
    /\ feed' = Unavailable
    /\ ei' = 1
    /\ ii' = 1
    /\ route_status' = EmptyMap
    /\ service_data' = <<>>
    /\ live_failed' = FALSE
    /\ cache_readable' = TRUE
    /\ response' = NoResponse
    /\ UNCHANGED <<cache, next_id>>
    /\ UNCHANGED <<arrivalVars, staticVars>>

NextStatus ==
    \/ FetchAlerts
    \/ FoldInformed
    \/ NextEntity
    \/ FoldDone
    \/ BuildStatus
    \/ CacheCommit
    \/ CacheWriteFails
    \/ RespondLive
    \/ RespondLiveFails
    \/ FallbackRead
    \/ FallbackReadFails
    \/ NextStatusRequest

SpecStatus == InitStatus /\ [][NextStatus]_vars

(***************************************************************************)
(* The alerts feeds of the classification specification: one alert, its    *)
(* header and description drawn from texts that exercise every rule of the *)
(* keyword chain, some of them longer than the truncation points.          *)
(***************************************************************************)
Pad100 ==
    "zzzzzzzzzzzzzzzzzzzzzzzzzzzzzzzzzzzzzzzzzzzzzzzzzzzzzzzzzzzzzzzzzzzzzzzzzzzzzzzzzzzzzzzzzzzzzzzzzzzz"
Pad200 == Pad100 \o Pad100
Pad300 == Pad200 \o Pad100
Pad1000 == Pad300 \o Pad300 \o Pad300 \o Pad100

ClassifyHeaders ==
    { <<>>,
      <<"Service SUSPENDED in both directions">>,
      <<"A train experiencing delays due to signal problems">>,
      <<"Trains are Running Behind schedule">>,
      <<"Northbound trains skip 23 St">>,
      <<"Express trains running on the local track">>,
      <<"Express service">>,
      <<"Modified Schedule", "Horario modificado: servicio suspendido">>,
      <<"Planned work">>,
      <<Pad200 \o " No Service">>,
      <<Pad300 \o " trains are delayed">> }

ClassifyDescriptions ==
    { <<>>,
      <<"Trains are Not Operating between these stations">>,
      <<"Expect delays">>,
      <<"An Adjusted Schedule is in effect">>,
      <<"Take the bus instead">>,
      <<"Some trains skip stops">>,
      <<Pad300 \o " Service is SUSPENDED">>,
      <<Pad1000 \o " trains skip this station">> }

ClassifyFeeds ==
    { FeedMessage(<<Alert(h, d, <<Route("A")>>)>>) :
        h \in ClassifyHeaders, d \in ClassifyDescriptions }

InitClassify ==
    /\ alertsUpstream \in ClassifyFeeds
    /\ spc = "start"
    /\ feed = Unavailable
    /\ ei = 1
    /\ ii = 1
    /\ route_status = EmptyMap
    /\ service_data = <<>>
    /\ cache = <<>>
    /\ next_id = 1
    /\ requests = 1
    /\ live_failed = FALSE
    /\ cache_readable = TRUE
    /\ response = NoResponse
    /\ ArrivalsIdle /\ StaticIdle

\* get_route_status_from_alerts alone
NextClassify ==
    \/ FetchAlerts
    \/ FoldInformed
    \/ NextEntity
    \/ FoldDone

SpecClassify == InitClassify /\ [][NextClassify]_vars

(***************************************************************************)
(* Claims about the alert classifier and the service status endpoint.      *)
(***************************************************************************)
\* the ranks the claims name: good=0, delay=1, service-change=2
ClaimRank(s) == IF s = "good" THEN 0 ELSE IF s = "delay" THEN 1 ELSE 2

MaxRank(messages) ==
    CHOOSE m \in {ClaimRank(messages[k].status) : k \in 1..Len(messages)} :
        \A k \in 1..Len(messages) : ClaimRank(messages[k].status) <= m

C1_SeverityIsMaxRank ==
    \A r \in DOMAIN route_status :
        /\ route_status[r].messages # <<>>
        /\ ClaimRank(route_status[r].status) = MaxRank(route_status[r].messages)

C1_NeverLowers ==
    \A r \in (DOMAIN route_status) \cap (DOMAIN route_status') :
        ClaimRank(route_status'[r].status) >= ClaimRank(route_status[r].status)

\* C1: at every point of the fold a route's severity is the maximum-rank severity
\* among the messages stored for it, and no step of the fold lowers a route's severity.
C1_Theorem == [](C1_SeverityIsMaxRank) /\ [][C1_NeverLowers]_vars

\* C1's case: a message of lower rank was folded in after one of higher rank.
C1_Witness ==
    \E r \in DOMAIN route_status :
        LET m == route_status[r].messages
        IN  /\ Len(m) >= 2
            /\ ClaimRank(m[Len(m)].status) < ClaimRank(m[1].status)
            /\ route_status[r].status = "service-change"

\* The alerts the fold has read so far that name route r, in the order it read
\* them: entity e counts once for each processed informed_entity naming r.
RECURSIVE Repeat(_, _)
Repeat(x, n) == IF n = 0 THEN <<>> ELSE <<x>> \o Repeat(x, n - 1)

ProcessedInformed(e) ==
    IF e < ei THEN Len(feed.entity[e].informed_entity)
    ELSE IF e = ei THEN ii - 1
    ELSE 0

TimesNamed(e, r) ==
    IF ~feed.entity[e].is_alert THEN 0
    ELSE Cardinality({i \in 1..ProcessedInformed(e) :
                         feed.entity[e].informed_entity[i] = Route(r)})

RECURSIVE AlertsNaming(_, _)
AlertsNaming(r, e) ==
    IF e = 0 THEN <<>>
    ELSE AlertsNaming(r, e - 1) \o Repeat(feed.entity[e], TimesNamed(e, r))

\* the full, untruncated combined text of an alert
FullText(alert) ==
    CombinedText(FirstTranslation(alert.header_text),
                 FirstTranslation(alert.description_text))

\* the priority list of the claim, first match wins, on the lowered text t
PrioritySeverity(t) ==
    CASE Contains(t, "suspended") \/ Contains(t, "no service") \/ Contains(t, "not operating")
           -> "service-change"
      [] OTHER ->
    CASE Contains(t, "delayed") \/ Contains(t, "delay") \/ Contains(t, "running behind")
           -> "delay"
      [] OTHER ->
    CASE Contains(t, "skip") \/ Contains(t, "skips") -> "service-change"
      [] OTHER ->
    CASE Contains(t, "express") /\ (Contains(t, "running") \/ Contains(t, "skip"))
           -> "service-change"
      [] OTHER ->
    CASE Contains(t, "modified schedule") \/ Contains(t, "adjusted schedule")
           -> "service-change"
      [] OTHER -> "good"

\* a keyword that makes a text a service change
HasServiceChangeKeyword(t) ==
    \/ Contains(t, "suspended") \/ Contains(t, "no service") \/ Contains(t, "not operating")
    \/ Contains(t, "skip")
    \/ Contains(t, "express") /\ Contains(t, "running")
    \/ Contains(t, "modified schedule") \/ Contains(t, "adjusted schedule")

\* C2: every stored message's severity is the priority list's verdict on the full
\* untruncated combined text of its alert, case-insensitively; a text with "delay"
\* and no service-change keyword is a delay.
C2_Theorem ==
    feed.ok =>
        \A r \in DOMAIN route_status :
            LET alerts == AlertsNaming(r, Len(feed.entity))
                messages == route_status[r].messages
            IN  /\ Len(messages) = Len(alerts)
                /\ \A k \in 1..Len(messages) :
                      LET t == Lower(FullText(alerts[k]))
                      IN  /\ messages[k].status = PrioritySeverity(t)
                          /\ Contains(t, "delay") /\ ~HasServiceChangeKeyword(t)
                                => messages[k].status = "delay"
                          /\ messages[k].text = Truncate(FullText(alerts[k]), TextMax)

\* C2's case: the keyword that decides the severity lies beyond the 300 characters
\* kept for display, and beyond the 200 kept of the header.
C2_Witness ==
    \E r \in DOMAIN route_status :
        \E k \in 1..Len(route_status[r].messages) :
            LET m == route_status[r].messages[k]
            IN  /\ m.status = "delay"
                /\ Len(m.text) = TextMax
                /\ Len(m.header) = HeaderMax
                /\ ~Contains(Lower(m.text), "delay")
                /\ ~Contains(Lower(m.header), "delay")

\* the rows of service_data are built
StatusBuilt == spc \in {"cache", "respond", "fallback", "done"}

GoodServiceMessage ==
    [header |-> "Good Service", description |-> "", text |-> "Good Service",
     status |-> "good"]

\* C3: every catalog route absent from the classifier's mapping is emitted good
\* with the single synthetic "Good Service" message; with the alerts feed empty or
\* unavailable the 24 rows built, and the live response carrying them, are all good.
C3_Theorem ==
    StatusBuilt =>
        /\ Len(service_data) = 24
        /\ \A i \in 1..Len(AllLineIds) :
              /\ service_data[i].id = AllLineIds[i]
              /\ AllLineIds[i] \notin DOMAIN route_status =>
                    /\ service_data[i].status = "good"
                    /\ service_data[i].message = "Good Service"
                    /\ service_data[i].messages = <<GoodServiceMessage>>
        /\ (~feed.ok \/ feed.entity = <<>>) =>
              /\ \A i \in 1..Len(service_data) : service_data[i].status = "good"
              /\ (response.success /\ ~response.cached) =>
                    /\ Len(response.data) = 24
                    /\ \A i \in 1..24 : response.data[i].status = "good"

\* C3's case: the alerts feed is unavailable and the response lists 24 good routes.
C3_Witness ==
    /\ spc = "done"
    /\ ~feed.ok
    /\ response.success /\ ~response.cached
    /\ Len(response.data) = 24
    /\ \A i \in 1..24 : response.data[i].status = "good"

\* C4: when the live computation fails, the response is a success carrying the rows
\* now stored in the cache, marked cached, and it is the error only when the cache
\* holds no rows or cannot be read.
C4_Theorem ==
    (spc = "done" /\ live_failed) =>
        IF cache_readable /\ cache # <<>>
        THEN /\ response.success
             /\ response.cached
             /\ response.http = 200
             /\ response.data = cache
        ELSE /\ ~response.success
             /\ response.http = 500

\* C4's case: the cache write failed and the rows of an earlier cycle are returned.
C4_Witness ==
    /\ spc = "done"
    /\ live_failed
    /\ response.success /\ response.cached
    /\ Len(response.data) >= 24
    /\ \A k \in 1..Len(response.data) : response.data[k].updated_at < requests

RowsOf(route_id) == {k \in 1..Len(cache) : cache[k].route_id = route_id}

\* C5: once a cycle has written the cache, the cache holds exactly one row per
\* route_id, the row of the latest cycle that wrote.
C5_OneRowPerRoute ==
    cache # <<>> =>
        \A i \in 1..Len(AllLineIds) : Cardinality(RowsOf(AllLineIds[i])) = 1

(***************************************************************************)
(* GET /api/arrivals/<station_id>                                          *)
(***************************************************************************)
\* the keys of MTA_FEEDS, in insertion order (lines 21-30)
MTA_FEEDS == <<"ACE", "BDFM", "G", "JZ", "NQRW", "1234567", "L", "SIR">>

ArrivalsLimit == 10   \* arrivals[:10]
FetchTimeout == 10    \* requests.get(..., timeout=10)
SecondsPerMinute == 60

\* bounds of the arrivals specification
StartTime == 1000     \* the clock when the request arrives
FetchSeconds == 1     \* what a fetch that succeeds takes

\* s.startswith(prefix), s.endswith(suffix)
StartsWith(s, prefix) ==
    Len(prefix) <= Len(s) /\ SubSeq(s, 1, Len(prefix)) = prefix
EndsWith(s, suffix) ==
    Len(suffix) <= Len(s) /\ SubSeq(s, Len(s) - Len(suffix) + 1, Len(s)) = suffix

\* The mutant of Minutes: the difference is not clamped at 0.
MinutesUnclamped(arrival_time, current_time) ==
    (arrival_time - current_time) \div SecondsPerMinute

\* line 442: max(0, (arrival_time - current_time) // 60); // and \div both floor
Minutes(arrival_time, current_time) ==
    Max(0, (arrival_time - current_time) \div SecondsPerMinute)

\* lines 445-451
Arrival(route_id, stop_time, current_time) ==
    [line |-> route_id,
     direction |-> IF EndsWith(stop_time.stop_id, "N") THEN "Uptown" ELSE "Downtown",
     minutes |-> Minutes(stop_time.arrival_time, current_time)]

\* lines 438-439: the stop_time_updates of a trip that are emitted
Emits(stop_time, station) ==
    StartsWith(stop_time.stop_id, station) /\ stop_time.has_arrival

\* lines 436-451: the history entries of one trip_update, in order
RECURSIVE EmittedOfTrip(_, _, _, _)
EmittedOfTrip(route_id, updates, station, current_time) ==
    IF updates = <<>> THEN <<>>
    ELSE (IF Emits(Head(updates), station)
          THEN <<[arrival |-> Arrival(route_id, Head(updates), current_time),
                  arrival_time |-> Head(updates).arrival_time,
                  current_time |-> current_time]>>
          ELSE <<>>)
         \o EmittedOfTrip(route_id, Tail(updates), station, current_time)

\* lines 431-451: the history entries of one feed, in order
RECURSIVE EmittedOfFeed(_, _, _)
EmittedOfFeed(entities, station, current_time) ==
    IF entities = <<>> THEN <<>>
    ELSE (IF Head(entities).has_trip_update
          THEN EmittedOfTrip(Head(entities).route_id, Head(entities).stop_time_update,
                             station, current_time)
          ELSE <<>>)
         \o EmittedOfFeed(Tail(entities), station, current_time)

\* the dicts appended to arrivals
ArrivalsOf(entries) == [k \in 1..Len(entries) |-> entries[k].arrival]

\* The mutant of SkipFeed: a feed that fails discards what was collected.
DropCollected(collected) == <<>>

\* lines 428-429: a feed that is None is skipped
SkipFeed(collected) == collected

\* list.sort(key=minutes) is stable: x goes after the entries not greater than it
RECURSIVE InsertByMinutes(_, _)
InsertByMinutes(sorted, x) ==
    IF sorted = <<>> THEN <<x>>
    ELSE IF Head(sorted).minutes <= x.minutes
         THEN <<Head(sorted)>> \o InsertByMinutes(Tail(sorted), x)
         ELSE <<x>> \o sorted

RECURSIVE SortFrom(_, _, _)
SortFrom(sorted, list, k) ==
    IF k > Len(list) THEN sorted
    ELSE SortFrom(InsertByMinutes(sorted, list[k]), list, k + 1)

\* The mutant of SortByMinutes: the list is left in the order collected.
Unsorted(list) == list

\* line 454
SortByMinutes(list) == SortFrom(<<>>, list, 1)

\* The mutant of FirstTen: nothing is cut.
Uncut(list) == list

\* line 455
FirstTen(list) == SubSeq(list, 1, Min(ArrivalsLimit, Len(list)))

(***************************************************************************)
(* The real-time feeds of the arrivals specification.                      *)
(***************************************************************************)
StopTime(stop_id, arrival_time) ==
    [stop_id |-> stop_id, has_arrival |-> TRUE, arrival_time |-> arrival_time]
\* a stop_time_update without the arrival field
NoArrival(stop_id) ==
    [stop_id |-> stop_id, has_arrival |-> FALSE, arrival_time |-> 0]

TripUpdate(route_id, stop_time_update) ==
    [has_trip_update |-> TRUE, route_id |-> route_id,
     stop_time_update |-> stop_time_update]
\* an entity that holds an alert or a vehicle position and no trip update
OtherEntity ==
    [has_trip_update |-> FALSE, route_id |-> "", stop_time_update |-> <<>>]

ArrivalFeeds ==
    { FeedMessage(<<TripUpdate("1", <<StopTime("127N", StartTime + 125),
                                      StopTime("127S", StartTime - 90),
                                      StopTime("A32N", StartTime + 600),
                                      NoArrival("127N")>>)>>),
      FeedMessage(<<OtherEntity,
                    TripUpdate("N", <<StopTime("127S", StartTime + 60),
                                      StopTime("A32S", StartTime + 30)>>),
                    TripUpdate("A", <<StopTime("127N", StartTime + 59),
                                      StopTime("A32N", 0)>>)>>),
      Unavailable }

Stations == {"127", "A32"}

InitArrivals ==
    /\ station_id \in Stations
    /\ apc = "collect"
    /\ fi = 1
    /\ arrivals = <<>>
    /\ clock = StartTime
    /\ fetched = <<>>
    /\ emitted = <<>>
    /\ aresponse = [success |-> FALSE, station_id |-> "", arrivals |-> <<>>, http |-> 0]
    /\ StatusIdle /\ StaticIdle

\* lines 426-451: one feed of MTA_FEEDS is fetched and, unless it is None, its
\* arrivals at the station are appended; the fetch takes its time
CollectFeed ==
    /\ apc = "collect"
    /\ fi <= Len(MTA_FEEDS)
    /\ \E f \in ArrivalFeeds :
          LET returned == clock + (IF f.ok THEN FetchSeconds ELSE FetchTimeout)
              entries == EmittedOfFeed(f.entity, station_id, returned)
          IN  /\ clock' = returned
              /\ fetched' = Append(fetched, [feed |-> f, at |-> returned])
              /\ arrivals' = IF f.ok THEN arrivals \o ArrivalsOf(entries)
                             ELSE SkipFeed(arrivals)
              /\ emitted' = IF f.ok THEN emitted \o entries ELSE emitted
    /\ fi' = fi + 1
    /\ UNCHANGED <<station_id, apc, aresponse>>
    /\ UNCHANGED <<statusVars, staticVars>>

\* lines 453-457
RespondArrivals ==
    /\ apc = "collect"
    /\ fi > Len(MTA_FEEDS)
    /\ arrivals' = FirstTen(SortByMinutes(arrivals))
    /\ aresponse' = [success |-> TRUE, station_id |-> station_id,
                     arrivals |-> arrivals', http |-> 200]
    /\ apc' = "done"
    /\ UNCHANGED <<station_id, fi, clock, fetched, emitted>>
    /\ UNCHANGED <<statusVars, staticVars>>

NextArrivals ==
    \/ CollectFeed
    \/ RespondArrivals

SpecArrivals == InitArrivals /\ [][NextArrivals]_vars

(***************************************************************************)
(* Claims about the arrivals endpoint.                                     *)
(***************************************************************************)
Count(list, P(_)) == Cardinality({k \in 1..Len(list) : P(list[k])})

\* everything the feeds yielded for the station, before the sort and the cut
Collected == ArrivalsOf(emitted)

C6_Sorted(list) ==
    \A i, j \in 1..Len(list) : i < j => list[i].minutes <= list[j].minutes

\* list holds the n smallest-minutes entries of all: below every threshold v it
\* holds as many entries as all has, up to n, and it holds no entry all lacks
C6_Smallest(list, all, n) ==
    /\ Len(list) = Min(n, Len(all))
    /\ \A k \in 1..Len(all) :
          LET v == all[k].minutes
          IN  Count(list, LAMBDA a : a.minutes <= v)
                = Min(n, Count(all, LAMBDA a : a.minutes <= v))
    /\ \A k \in 1..Len(list) :
          Count(list, LAMBDA a : a = list[k]) <= Count(all, LAMBDA a : a = list[k])

\* C6: the arrivals returned are in ascending order of minutes, at most 10, and are
\* the 10 smallest-minutes arrivals collected across all feeds.
C6_Theorem ==
    apc = "done" =>
        /\ aresponse.success
        /\ C6_Sorted(aresponse.arrivals)
        /\ Len(aresponse.arrivals) <= 10
        /\ C6_Smallest(aresponse.arrivals, Collected, 10)

\* C6's case: more than 10 arrivals were collected, out of order, and one of those
\* cut is later than all those returned.
C6_Witness ==
    /\ apc = "done"
    /\ Len(Collected) > 10
    /\ ~C6_Sorted(Collected)
    /\ Len(aresponse.arrivals) = 10
    /\ \E k \in 1..Len(Collected) : Collected[k].minutes > aresponse.arrivals[10].minutes

\* m = max(0, floor(d / 60)), stated without a division
C7_ClampedFloor(m, d) ==
    /\ m \in Nat
    /\ d <= 0 => m = 0
    /\ d >= 0 => 60 * m <= d /\ d < 60 * (m + 1)

\* C7: every arrival emitted has minutes = max(0, floor((arrival - now) / 60)): a
\* natural number, 0 when the arrival time is at or before now.
C7_Theorem ==
    /\ \A k \in 1..Len(emitted) :
          C7_ClampedFloor(emitted[k].arrival.minutes,
                          emitted[k].arrival_time - emitted[k].current_time)
    /\ \A k \in 1..Len(arrivals) : \E j \in 1..Len(emitted) : arrivals[k] = emitted[j].arrival
    /\ \A k \in 1..Len(aresponse.arrivals) :
          \E j \in 1..Len(emitted) : aresponse.arrivals[k] = emitted[j].arrival

\* C7's case: an arrival in the past is returned with 0 minutes, beside one in the
\* future whose minutes are rounded down.
C7_Witness ==
    /\ apc = "done"
    /\ \E j \in 1..Len(emitted) :
          /\ emitted[j].arrival_time < emitted[j].current_time
          /\ emitted[j].arrival.minutes = 0
          /\ \E k \in 1..Len(aresponse.arrivals) : aresponse.arrivals[k] = emitted[j].arrival
    /\ \E j \in 1..Len(emitted) :
          /\ emitted[j].arrival.minutes >= 1
          /\ emitted[j].arrival_time - emitted[j].current_time
                > 60 * emitted[j].arrival.minutes

\* what the feeds that were fetched successfully yield, in the order fetched
RECURSIVE YieldOfSuccessful(_)
YieldOfSuccessful(fetches) ==
    IF fetches = <<>> THEN <<>>
    ELSE (IF Head(fetches).feed.ok
          THEN ArrivalsOf(EmittedOfFeed(Head(fetches).feed.entity, station_id,
                                        Head(fetches).at))
          ELSE <<>>)
         \o YieldOfSuccessful(Tail(fetches))

\* C8: whatever feeds fail, the list collected is what the feeds that succeeded
\* yield, all 8 feeds are tried, and the response is a success carrying the first
\* 10 of that list sorted.
C8_Theorem ==
    /\ apc = "collect" => arrivals = YieldOfSuccessful(fetched)
    /\ apc = "done" =>
          /\ Len(fetched) = Len(MTA_FEEDS)
          /\ aresponse.success
          /\ aresponse.http = 200
          /\ aresponse.arrivals = FirstTen(SortByMinutes(YieldOfSuccessful(fetched)))

\* C8's case: feeds failed after and before feeds that yielded arrivals, and the
\* response carries the arrivals of those that succeeded.
C8_Witness ==
    /\ apc = "done"
    /\ aresponse.success
    /\ aresponse.arrivals # <<>>
    /\ \E i, j, k \in 1..Len(fetched) :
          /\ i < j /\ j < k
          /\ fetched[i].feed.ok /\ ~fetched[j].feed.ok /\ fetched[k].feed.ok
          /\ EmittedOfFeed(fetched[i].feed.entity, station_id, fetched[i].at) # <<>>

(***************************************************************************)
(* parse_gtfs_static: the tables of the archive to polylines and stops.    *)
(***************************************************************************)
GTFS_CACHE_TTL == 86400   \* 60 * 60 * 24

\* A Python dict, which keeps insertion order: a sequence of [key, value].
DictHas(d, key) == \E k \in 1..Len(d) : d[k].key = key
DictGet(d, key) == d[CHOOSE k \in 1..Len(d) : d[k].key = key].value
DictPut(d, key, value) ==
    IF DictHas(d, key)
    THEN [k \in 1..Len(d) |-> IF d[k].key = key THEN [key |-> key, value |-> value]
                              ELSE d[k]]
    ELSE Append(d, [key |-> key, value |-> value])

\* float(text), in hundredths of a degree, for the texts the tables hold
IsFloat(text) == text \in {"40.75", "40.76", "-73.99", "-73.98", "0"}
ToFloat(text) ==
    CASE text = "40.75" -> 4075 [] text = "40.76" -> 4076
      [] text = "-73.99" -> -7399 [] text = "-73.98" -> -7398 [] text = "0" -> 0

\* int(text), for the texts the tables hold
IsInt(text) == text \in {"0", "1", "2", "3", "4"}
ToInt(text) ==
    CASE text = "0" -> 0 [] text = "1" -> 1 [] text = "2" -> 2 [] text = "3" -> 3
      [] text = "4" -> 4

\* x or y, on strings
Or(x, y) == IF x # "" THEN x ELSE y

\* lines 511-516: both coordinates, or (0.0, 0.0) when either does not parse
Coordinates(r) ==
    IF IsFloat(Or(r.stop_lat, "0")) /\ IsFloat(Or(r.stop_lon, "0"))
    THEN <<ToFloat(Or(r.stop_lat, "0")), ToFloat(Or(r.stop_lon, "0"))>>
    ELSE <<0, 0>>

\* lines 506-523
RECURSIVE MapStops(_, _, _)
MapStops(stops, rows, k) ==
    IF k > Len(rows) THEN stops
    ELSE IF rows[k].stop_id = "" THEN MapStops(stops, rows, k + 1)
    ELSE MapStops(DictPut(stops, rows[k].stop_id,
                          [stop_id |-> rows[k].stop_id,
                           name |-> Or(rows[k].stop_name, Or(rows[k].stop_desc, rows[k].stop_id)),
                           lat |-> Coordinates(rows[k])[1],
                           lon |-> Coordinates(rows[k])[2],
                           lines |-> {}]),
                  rows, k + 1)

\* lines 526-531
RECURSIVE MapTrips(_, _, _)
MapTrips(trip_to_route, rows, k) ==
    IF k > Len(rows) THEN trip_to_route
    ELSE IF rows[k].trip_id # "" /\ rows[k].route_id # ""
         THEN MapTrips(DictPut(trip_to_route, rows[k].trip_id, rows[k].route_id), rows, k + 1)
         ELSE MapTrips(trip_to_route, rows, k + 1)

\* a conversion that is made only for the rows that are kept
BadSequenceOfKeptRows(rows) ==
    \E k \in 1..Len(rows) :
        /\ rows[k].trip_id # "" /\ rows[k].stop_id # ""
        /\ ~IsInt(Or(rows[k].stop_sequence, "0"))

\* line 538 raises ValueError on some row
BadSequence(rows) == \E k \in 1..Len(rows) : ~IsInt(Or(rows[k].stop_sequence, "0"))

\* lines 534-541
RECURSIVE CollectStopSeq(_, _, _)
CollectStopSeq(trip_stopseq, rows, k) ==
    IF k > Len(rows) THEN trip_stopseq
    ELSE IF rows[k].trip_id = "" \/ rows[k].stop_id = ""
         THEN CollectStopSeq(trip_stopseq, rows, k + 1)
    ELSE LET seqs == IF DictHas(trip_stopseq, rows[k].trip_id)
                     THEN DictGet(trip_stopseq, rows[k].trip_id) ELSE <<>>
             pair == <<ToInt(Or(rows[k].stop_sequence, "0")), rows[k].stop_id>>
         IN  CollectStopSeq(DictPut(trip_stopseq, rows[k].trip_id, Append(seqs, pair)),
                            rows, k + 1)

\* sorted(seqs, key=lambda x: x[0]) is stable
RECURSIVE InsertBySeq(_, _)
InsertBySeq(sorted, x) ==
    IF sorted = <<>> THEN <<x>>
    ELSE IF Head(sorted)[1] <= x[1] THEN <<Head(sorted)>> \o InsertBySeq(Tail(sorted), x)
    ELSE <<x>> \o sorted

RECURSIVE SortBySeqFrom(_, _, _)
SortBySeqFrom(sorted, seqs, k) ==
    IF k > Len(seqs) THEN sorted
    ELSE SortBySeqFrom(InsertBySeq(sorted, seqs[k]), seqs, k + 1)

\* line 549
Ordered(seqs) ==
    LET sorted == SortBySeqFrom(<<>>, seqs, 1)
    IN  [k \in 1..Len(sorted) |-> sorted[k][2]]

\* lines 544-550
RECURSIVE GroupTrips(_, _, _, _)
GroupTrips(route_trips, trip_stopseq, trip_to_route, k) ==
    IF k > Len(trip_stopseq) THEN route_trips
    ELSE IF ~DictHas(trip_to_route, trip_stopseq[k].key)
         THEN GroupTrips(route_trips, trip_stopseq, trip_to_route, k + 1)
    ELSE LET route_id == DictGet(trip_to_route, trip_stopseq[k].key)
             trips == IF DictHas(route_trips, route_id) THEN DictGet(route_trips, route_id)
                      ELSE <<>>
         IN  GroupTrips(DictPut(route_trips, route_id,
                                Append(trips, Ordered(trip_stopseq[k].value))),
                        trip_stopseq, trip_to_route, k + 1)

\* a choice of the last of the longest
LastBest(trips) ==
    trips[CHOOSE k \in 1..Len(trips) :
            /\ \A j \in 1..Len(trips) : Len(trips[j]) <= Len(trips[k])
            /\ \A j \in (k + 1)..Len(trips) : Len(trips[j]) < Len(trips[k])]

\* line 555: max(trips, key=len) is the first of the longest
Best(trips) ==
    trips[CHOOSE k \in 1..Len(trips) :
            /\ \A j \in 1..Len(trips) : Len(trips[j]) <= Len(trips[k])
            /\ \A j \in 1..(k - 1) : Len(trips[j]) < Len(trips[k])]

\* The mutant of Repeats: the stop is never taken for a repeat.
NeverRepeats(stop_id, seen) == FALSE

\* line 563: stop_id in seen
Repeats(stop_id, seen) == stop_id \in seen

\* lines 556-567: the coordinates of best, with the stops that contributed them
RECURSIVE Materialize(_, _, _, _, _)
Materialize(best, k, stops, seen, built) ==
    IF k > Len(best) THEN built
    ELSE IF ~DictHas(stops, best[k]) THEN Materialize(best, k + 1, stops, seen, built)
    ELSE IF Repeats(best[k], seen) THEN Materialize(best, k + 1, stops, seen, built)
    ELSE Materialize(best, k + 1, stops, seen \cup {best[k]},
                     [coords |-> Append(built.coords,
                                        <<DictGet(stops, best[k]).lat,
                                          DictGet(stops, best[k]).lon>>),
                      stop_ids |-> Append(built.stop_ids, best[k])])

\* line 567: s['lines'].add(route_id) for the stops that contributed
AddLine(stops, stop_ids, route_id) ==
    [k \in 1..Len(stops) |->
        IF \E j \in 1..Len(stop_ids) : stop_ids[j] = stops[k].key
        THEN [key |-> stops[k].key,
              value |-> [stops[k].value EXCEPT !.lines = @ \cup {route_id}]]
        ELSE stops[k]]

\* lines 553-573: every route of route_trips, in order
RECURSIVE BuildPolylines(_, _, _)
BuildPolylines(route_trips, k, acc) ==
    IF k > Len(route_trips) THEN acc
    ELSE LET route_id == route_trips[k].key
             best == Best(route_trips[k].value)
             built == Materialize(best, 1, acc.stops, {}, [coords |-> <<>>, stop_ids |-> <<>>])
         IN  BuildPolylines(route_trips, k + 1,
                [stops |-> AddLine(acc.stops, built.stop_ids, route_id),
                 route_polylines |->
                    DictPut(acc.route_polylines, route_id,
                            [id |-> route_id, name |-> route_id, coordinates |-> built.coords]),
                 representative |-> DictPut(acc.representative, route_id, best),
                 polyline_stops |-> DictPut(acc.polyline_stops, route_id, built.stop_ids)])

\* lines 576-584; the sorted list of a stop's lines is kept as the set of them
StopsList(stops) ==
    [k \in 1..Len(stops) |->
        [id |-> stops[k].value.stop_id, name |-> stops[k].value.name,
         lat |-> stops[k].value.lat, lon |-> stops[k].value.lon,
         lines |-> stops[k].value.lines]]

\* lines 587-591, and 488
EmptyParse ==
    [route_polylines |-> <<>>, stops_list |-> <<>>,
     representative |-> <<>>, polyline_stops |-> <<>>]

\* lines 490-591
ParseArchive(archive) ==
    IF BadSequence(archive.stop_times) THEN EmptyParse
    ELSE LET stops == MapStops(<<>>, archive.stops, 1)
             trip_to_route == MapTrips(<<>>, archive.trips, 1)
             trip_stopseq == CollectStopSeq(<<>>, archive.stop_times, 1)
             route_trips == GroupTrips(<<>>, trip_stopseq, trip_to_route, 1)
             acc == BuildPolylines(route_trips, 1,
                       [stops |-> stops, route_polylines |-> <<>>,
                        representative |-> <<>>, polyline_stops |-> <<>>])
         IN  [route_polylines |-> acc.route_polylines,
              stops_list |-> StopsList(acc.stops),
              representative |-> acc.representative,
              polyline_stops |-> acc.polyline_stops]

(***************************************************************************)
(* The archives of the static specification.                               *)
(***************************************************************************)
MaxStopTimes == 3          \* rows of stop_times.txt
MaxPolylineRequests == 2   \* /api/route-polylines requests served in one run
AnHour == 3600             \* the shorter of the two waits between requests

StopRow(stop_id, stop_name, stop_lat, stop_lon) ==
    [stop_id |-> stop_id, stop_name |-> stop_name, stop_desc |-> "",
     stop_lat |-> stop_lat, stop_lon |-> stop_lon]
TripRow(trip_id, route_id) == [trip_id |-> trip_id, route_id |-> route_id]
StopTimeRow(trip_id, stop_id, stop_sequence) ==
    [trip_id |-> trip_id, stop_id |-> stop_id, stop_sequence |-> stop_sequence]

\* stops.txt: S9 is not in it
StopsTable ==
    <<StopRow("S1", "First St", "40.75", "-73.99"),
      StopRow("S2", "Second St", "40.76", "-73.98"),
      StopRow("", "No id", "40.75", "-73.98"),
      StopRow("S3", "", "n/a", "")>>

\* trips.txt
TripsTable ==
    <<TripRow("T1", "A"), TripRow("T2", "A"), TripRow("T3", ""), TripRow("T4", "L")>>

\* the rows stop_times.txt is made of
StopTimeRows ==
    { StopTimeRow("T1", "S1", "1"),
      StopTimeRow("T1", "S2", "2"),
      StopTimeRow("T1", "S9", "2"),
      StopTimeRow("T1", "S1", "3"),
      StopTimeRow("T2", "S2", ""),
      StopTimeRow("T4", "S3", "1"),
      StopTimeRow("", "S1", "x") }

Archives ==
    {Archive(StopsTable, TripsTable, rows) : rows \in SeqsUpTo(StopTimeRows, MaxStopTimes)}

(***************************************************************************)
(* GET /api/route-polylines                                                *)
(***************************************************************************)
InitStatic ==
    /\ staticUpstream \in [ok : BOOLEAN, archive : Archives]
    /\ zip_file = NoFile
    /\ wall = 0
    /\ ppc = "download"
    /\ zip_path = FALSE
    /\ route_polylines = <<>>
    /\ stops_list = <<>>
    /\ representative = <<>>
    /\ polyline_stops = <<>>
    /\ presponse = NoPolylines
    /\ prequests = 1
    /\ force = FALSE
    /\ calls = 0
    /\ downloads = <<>>
    /\ WriterIdle
    /\ StatusIdle /\ ArrivalsIdle

\* a freshness test that still holds at the time to live itself
FreshAtTimeToLive == zip_file.exists /\ wall - zip_file.mtime <= GTFS_CACHE_TTL

\* lines 467-469: the file is there and younger than the time to live
Fresh == zip_file.exists /\ wall - zip_file.mtime < GTFS_CACHE_TTL

\* lines 467-470: the call returns the file without downloading
UseCached == ~force /\ Fresh

\* line 472: one more requests.get, with its time and whether it succeeded
Download(ok) == [at |-> wall, ok |-> ok]

\* lines 474-476: the file once written and closed
Written(content) == [exists |-> TRUE, archive |-> content, complete |-> TRUE, mtime |-> wall]

\* lines 467-470: the cached file is fresh and is returned
DownloadCached ==
    /\ ppc = "download"
    /\ UseCached
    /\ zip_path' = TRUE
    /\ ppc' = "parse"
    /\ calls' = calls + 1
    /\ UNCHANGED <<staticUpstream, zip_file, wall, route_polylines, stops_list,
                   representative, polyline_stops, presponse, prequests,
                   force, downloads>>
    /\ UNCHANGED <<statusVars, arrivalVars, writerVars>>

\* lines 472-476: the archive is downloaded and written over the file
DownloadFresh ==
    /\ ppc = "download"
    /\ ~UseCached
    /\ staticUpstream.ok
    /\ downloads' = Append(downloads, Download(TRUE))
    /\ zip_file' = Written(staticUpstream.archive)
    /\ zip_path' = TRUE
    /\ ppc' = "parse"
    /\ calls' = calls + 1
    /\ UNCHANGED <<staticUpstream, wall, route_polylines, stops_list,
                   representative, polyline_stops, presponse, prequests, force>>
    /\ UNCHANGED <<statusVars, arrivalVars, writerVars>>

\* a download that opens the file for writing before it asks for the archive
DownloadFailsAfterOpen ==
    /\ ppc = "download"
    /\ ~UseCached
    /\ ~staticUpstream.ok
    /\ downloads' = Append(downloads, Download(FALSE))
    /\ zip_file' = [exists |-> TRUE, archive |-> NoArchive, complete |-> FALSE,
                    mtime |-> wall]
    /\ zip_path' = FALSE
    /\ ppc' = "parse"
    /\ calls' = calls + 1
    /\ UNCHANGED <<staticUpstream, wall, route_polylines, stops_list,
                   representative, polyline_stops, presponse, prequests, force>>
    /\ UNCHANGED <<statusVars, arrivalVars, writerVars>>

\* lines 472-479: the download raises, None is returned
DownloadFails ==
    /\ ppc = "download"
    /\ ~UseCached
    /\ ~staticUpstream.ok
    /\ downloads' = Append(downloads, Download(FALSE))
    /\ zip_path' = FALSE
    /\ ppc' = "parse"
    /\ calls' = calls + 1
    /\ UNCHANGED <<staticUpstream, zip_file, wall, route_polylines, stops_list,
                   representative, polyline_stops, presponse, prequests, force>>
    /\ UNCHANGED <<statusVars, arrivalVars, writerVars>>

\* lines 490-503, 587-591: zipfile.ZipFile raises on a file that is not a whole
\* archive, and the handler of line 587 returns the empty results
ReadZip(file) == IF file.complete THEN ParseArchive(file.archive) ELSE EmptyParse

\* lines 486-591
ParseStatic ==
    /\ ppc = "parse"
    /\ LET parsed == IF zip_path THEN ReadZip(zip_file) ELSE EmptyParse
       IN  /\ route_polylines' = parsed.route_polylines
           /\ stops_list' = parsed.stops_list
           /\ representative' = parsed.representative
           /\ polyline_stops' = parsed.polyline_stops
    /\ ppc' = "respond"
    /\ UNCHANGED <<staticUpstream, zip_file, wall, zip_path, presponse, prequests,
                   force, calls, downloads>>
    /\ UNCHANGED <<statusVars, arrivalVars, writerVars>>

\* a handler that answers with an error when there was no archive to parse
RespondUnavailable ==
    /\ ppc = "respond"
    /\ presponse' = IF zip_path
                       THEN [success |-> TRUE,
                             routes |-> [k \in 1..Len(route_polylines) |->
                                            route_polylines[k].value],
                             stops |-> stops_list, http |-> 200]
                       ELSE [success |-> FALSE, routes |-> <<>>, stops |-> <<>>,
                             http |-> 500]
    /\ ppc' = "done"
    /\ UNCHANGED <<staticUpstream, zip_file, wall, zip_path, route_polylines, stops_list,
                   representative, polyline_stops, prequests, force, calls, downloads>>
    /\ UNCHANGED <<statusVars, arrivalVars, writerVars>>

\* lines 598-604
RespondPolylines ==
    /\ ppc = "respond"
    /\ presponse' = [success |-> TRUE,
                     routes |-> [k \in 1..Len(route_polylines) |-> route_polylines[k].value],
                     stops |-> stops_list, http |-> 200]
    /\ ppc' = "done"
    /\ UNCHANGED <<staticUpstream, zip_file, wall, zip_path, route_polylines, stops_list,
                   representative, polyline_stops, prequests, force, calls, downloads>>
    /\ UNCHANGED <<statusVars, arrivalVars, writerVars>>

\* the next request arrives, an hour or a day later; the download may work or not
NextPolylinesRequest ==
    /\ ppc = "done"
    /\ prequests < MaxPolylineRequests
    /\ prequests' = prequests + 1
    /\ \E wait \in {AnHour, GTFS_CACHE_TTL} : wall' = wall + wait
    /\ \E ok \in BOOLEAN : staticUpstream' = [staticUpstream EXCEPT !.ok = ok]
    /\ ppc' = "download"
    /\ zip_path' = FALSE
    /\ route_polylines' = <<>>
    /\ stops_list' = <<>>
    /\ representative' = <<>>
    /\ polyline_stops' = <<>>
    /\ presponse' = NoPolylines
    /\ UNCHANGED <<zip_file, force, calls, downloads>>
    /\ UNCHANGED <<statusVars, arrivalVars, writerVars>>

NextStatic ==
    \/ DownloadCached
    \/ DownloadFresh
    \/ DownloadFails
    \/ ParseStatic
    \/ RespondPolylines
    \/ NextPolylinesRequest

SpecStatic == InitStatic /\ [][NextStatic]_vars

(***************************************************************************)
(* Claims about the route polylines.                                       *)
(***************************************************************************)
Parsed == ppc \in {"respond", "done"}

\* the stops table of the archive read
StopIds == {zip_file.archive.stops[k].stop_id : k \in 1..Len(zip_file.archive.stops)} \ {""}

\* list without the entries that equal the one right before them
RECURSIVE DropAdjacentRepeats(_)
DropAdjacentRepeats(list) ==
    IF Len(list) <= 1 THEN list
    ELSE LET front == DropAdjacentRepeats(SubSeq(list, 1, Len(list) - 1))
         IN  IF list[Len(list)] = list[Len(list) - 1] THEN front
             ELSE Append(front, list[Len(list)])

\* C9: the stops that contribute coordinates to a route's polyline are those of its
\* representative sequence that are in the stops table, less only the ones that
\* repeat the stop right before them; a stop that comes back later contributes again.
C9_OnlyAdjacentRepeatsDropped ==
    Parsed =>
        \A k \in 1..Len(representative) :
            DictGet(polyline_stops, representative[k].key)
              = DropAdjacentRepeats(SelectSeq(representative[k].value,
                                              LAMBDA stop_id : stop_id \in StopIds))

\* C10: no route's polyline takes coordinates from the same stop at two consecutive
\* positions, and its coordinates are those of the contributing stops, one each.
C10_Theorem ==
    Parsed =>
        /\ Len(polyline_stops) = Len(route_polylines)
        /\ \A k \in 1..Len(polyline_stops) :
              LET ids == polyline_stops[k].value
                  coordinates == DictGet(route_polylines, polyline_stops[k].key).coordinates
              IN  /\ \A j \in 1..(Len(ids) - 1) : ids[j] # ids[j + 1]
                  /\ Len(coordinates) = Len(ids)
                  /\ \A j \in 1..Len(ids) : ids[j] \in StopIds

\* C10's case: the representative sequence repeats a stop with only a stop absent
\* from the stops table in between, and the polyline takes the stop once.
C10_Witness ==
    /\ Parsed
    /\ \E k \in 1..Len(representative) :
          LET best == representative[k].value
          IN  /\ Len(best) = 3
              /\ best[1] = best[3]
              /\ best[1] \in StopIds
              /\ best[2] \notin StopIds
              /\ DictGet(polyline_stops, representative[k].key) = <<best[1]>>

(***************************************************************************)
(* download_gtfs_static called on its own, with and without force, while   *)
(* the archive served changes from one call to the next.                   *)
(***************************************************************************)
MaxCalls == 3              \* calls of download_gtfs_static in one run

\* the archives GTFS_STATIC_URL serves over time
Editions ==
    {Archive(StopsTable, TripsTable, <<StopTimeRow("T1", "S1", "1")>>),
     Archive(StopsTable, TripsTable, <<StopTimeRow("T4", "S3", "1")>>)}

InitDownload ==
    /\ staticUpstream \in [ok : BOOLEAN, archive : Editions]
    /\ force \in BOOLEAN
    /\ zip_file = NoFile
    /\ wall = 0
    /\ ppc = "download"
    /\ zip_path = FALSE
    /\ route_polylines = <<>>
    /\ stops_list = <<>>
    /\ representative = <<>>
    /\ polyline_stops = <<>>
    /\ presponse = NoPolylines
    /\ prequests = 0
    /\ calls = 0
    /\ downloads = <<>>
    /\ WriterIdle
    /\ StatusIdle /\ ArrivalsIdle

\* line 464: the function is called again, some time after it returned
NextCall ==
    /\ ppc = "parse"
    /\ calls < MaxCalls
    /\ \E wait \in {AnHour, GTFS_CACHE_TTL - AnHour, GTFS_CACHE_TTL} : wall' = wall + wait
    /\ staticUpstream' \in [ok : BOOLEAN, archive : Editions]
    /\ force' \in BOOLEAN
    /\ ppc' = "download"
    /\ zip_path' = FALSE
    /\ UNCHANGED <<zip_file, calls, downloads, route_polylines, stops_list,
                   representative, polyline_stops, presponse, prequests>>
    /\ UNCHANGED <<statusVars, arrivalVars, writerVars>>

NextDownload ==
    \/ DownloadCached
    \/ DownloadFresh
    \/ DownloadFails
    \/ NextCall

SpecDownload == InitDownload /\ [][NextDownload]_vars

(***************************************************************************)
(* Claims about the cache of the static archive.                           *)
(***************************************************************************)
\* one call of download_gtfs_static, from its first line to its return
CallStep == ppc = "download" /\ ppc' = "parse"

\* a call whose requests.get failed
FailedCall == CallStep /\ downloads' = Append(downloads, Download(FALSE))

\* C11: a call whose download fails returns the cached file when there is one,
\* however old, and None only when there is no cached file.
C11_StaleFileOnFailure ==
    [][FailedCall => (zip_path' = zip_file.exists)]_vars

\* index in downloads of the last successful download, 0 when there is none
LastSuccess ==
    LET succeeded == {k \in 1..Len(downloads) : downloads[k].ok}
    IN  IF succeeded = {} THEN 0
        ELSE CHOOSE k \in succeeded : \A j \in succeeded : j <= k

\* seconds since the last successful download
Age == wall - downloads[LastSuccess].at

C12_Step ==
    CallStep =>
        /\ (~force /\ LastSuccess # 0 /\ Age < GTFS_CACHE_TTL) =>
              /\ zip_path' = TRUE
              /\ downloads' = downloads
              /\ zip_file' = zip_file
        /\ (force \/ (LastSuccess # 0 /\ Age >= GTFS_CACHE_TTL)) =>
              /\ Len(downloads') = Len(downloads) + 1
              /\ downloads'[Len(downloads')].at = wall
              /\ staticUpstream.ok =>
                    /\ zip_path' = TRUE
                    /\ zip_file'.exists /\ zip_file'.complete
                    /\ zip_file'.archive = staticUpstream.archive
                    /\ zip_file'.mtime = wall
                    /\ downloads'[Len(downloads')].ok

\* C12: a call without force less than 24 hours after the last successful download
\* returns the cached file, downloads nothing and leaves the file alone; a call with
\* force, or 24 hours or more after the last successful download, downloads, and
\* when the download succeeds the file holds the archive just served and its age
\* counts from this call.
C12_Theorem == [][C12_Step]_vars

\* C12's case: of three calls without force the second, an hour after the first
\* download, was served from the file, and the third, exactly 24 hours after the
\* first download, downloaded again and wrote the file.
C12_Witness ==
    /\ ppc = "parse"
    /\ ~force
    /\ calls = 3
    /\ Len(downloads) = 2
    /\ downloads[1].ok /\ downloads[2].ok
    /\ downloads[2].at - downloads[1].at = GTFS_CACHE_TTL
    /\ downloads[2].at = wall
    /\ zip_file.mtime = wall

\* C17: a call whose download fails leaves the cached file as it was, content and
\* modification time, and with it the outcome of the freshness test.
C17_Theorem ==
    [][FailedCall => (zip_file' = zip_file /\ Fresh' = Fresh)]_vars

\* C17's case: a download has just failed while a cached file exists.
C17_Witness ==
    /\ ppc = "parse"
    /\ ~zip_path
    /\ zip_file.exists
    /\ Len(downloads) > 0
    /\ ~downloads[Len(downloads)].ok
    /\ downloads[Len(downloads)].at = wall

(***************************************************************************)
(* Claims about the polylines request when the archive cannot be had or    *)
(* cannot be parsed.                                                       *)
(***************************************************************************)
\* this request's download failed
DownloadFailed ==
    /\ ~zip_path
    /\ Len(downloads) > 0
    /\ ~downloads[Len(downloads)].ok
    /\ downloads[Len(downloads)].at = wall

\* C13: when the download fails and there is no cached file, the request is answered
\* with success true, no routes and no stops, not with an error.
C13_Theorem ==
    (ppc = "done" /\ DownloadFailed /\ ~zip_file.exists) =>
        presponse = [success |-> TRUE, routes |-> <<>>, stops |-> <<>>, http |-> 200]

\* C13's case: a request has been answered after its download failed with no file
\* in the cache.
C13_Witness ==
    /\ ppc = "done"
    /\ DownloadFailed
    /\ ~zip_file.exists
    /\ presponse.success
    /\ presponse.routes = <<>>
    /\ presponse.stops = <<>>

\* the rows of stop_times.txt in the file the request parsed
StopTimesRead == zip_file.archive.stop_times

\* a stop_sequence that is there and is not a number
NotANumber(text) == text # "" /\ ~IsInt(text)

\* C14: when a row of stop_times.txt has a stop_sequence that is not a number, be it
\* a row without trip_id or stop_id, the parse returns an empty polyline map and an
\* empty stop list together, and the request answers with both empty.
C14_Theorem ==
    (Parsed /\ zip_path
       /\ \E k \in 1..Len(StopTimesRead) : NotANumber(StopTimesRead[k].stop_sequence)) =>
        /\ route_polylines = <<>>
        /\ stops_list = <<>>
        /\ representative = <<>>
        /\ ppc = "done" => (presponse.routes = <<>> /\ presponse.stops = <<>>)

\* C14's case: the only row that is not a number lacks a trip_id, another row gives
\* route A a stop that is in the stops table, and both results are empty.
C14_Witness ==
    /\ ppc = "done"
    /\ zip_path
    /\ \E k \in 1..Len(StopTimesRead) :
          /\ NotANumber(StopTimesRead[k].stop_sequence)
          /\ StopTimesRead[k].trip_id = ""
    /\ \A k \in 1..Len(StopTimesRead) :
          NotANumber(StopTimesRead[k].stop_sequence) => StopTimesRead[k].trip_id = ""
    /\ \E k \in 1..Len(StopTimesRead) :
          StopTimesRead[k] = StopTimeRow("T1", "S1", "1")
    /\ Len(zip_file.archive.stops) > 0
    /\ presponse.routes = <<>>
    /\ presponse.stops = <<>>

(***************************************************************************)
(* Claim about the representative trip of a route.                         *)
(***************************************************************************)
\* the rows of stop_times.txt that have a trip_id and a stop_id
KeptRows ==
    {k \in 1..Len(StopTimesRead) :
        StopTimesRead[k].trip_id # "" /\ StopTimesRead[k].stop_id # ""}

\* the kept rows of one trip
RowsOfTrip(trip_id) == {k \in KeptRows : StopTimesRead[k].trip_id = trip_id}

\* the trips mapped to a route that have rows
TripsOfRoute(route_id) ==
    LET trip_to_route == MapTrips(<<>>, zip_file.archive.trips, 1)
    IN  {StopTimesRead[k].trip_id : k \in KeptRows} \cap
        {t \in {trip_to_route[j].key : j \in 1..Len(trip_to_route)} :
            DictGet(trip_to_route, t) = route_id}

\* the row at which a trip is first met
FirstRow(trip_id) ==
    CHOOSE k \in RowsOfTrip(trip_id) : \A j \in RowsOfTrip(trip_id) : k <= j

\* the trip of the route with the most stops, the first met of those that tie
FirstLongestTrip(route_id) ==
    CHOOSE t \in TripsOfRoute(route_id) :
        \A u \in TripsOfRoute(route_id) :
            \/ Cardinality(RowsOfTrip(u)) < Cardinality(RowsOfTrip(t))
            \/ /\ Cardinality(RowsOfTrip(u)) = Cardinality(RowsOfTrip(t))
               /\ FirstRow(t) <= FirstRow(u)

SequenceOfRow(k) == ToInt(Or(StopTimesRead[k].stop_sequence, "0"))

\* list gives the stops of the rows, each row once, by ascending stop_sequence
IsAscendingOrderOf(list, rows) ==
    /\ Len(list) = Cardinality(rows)
    /\ \E order \in [1..Len(list) -> rows] :
          /\ \A r \in rows : \E i \in 1..Len(list) : order[i] = r
          /\ \A i \in 1..Len(list) : list[i] = StopTimesRead[order[i]].stop_id
          /\ \A i \in 1..(Len(list) - 1) :
                SequenceOfRow(order[i]) <= SequenceOfRow(order[i + 1])

\* the stop_times.txt read parses
AllNumbers ==
    \A k \in 1..Len(StopTimesRead) : ~NotANumber(StopTimesRead[k].stop_sequence)

\* C16: every route with a trip gets a representative sequence, and it is the stops,
\* by ascending stop_sequence, of the trip of the route with the most stops, the
\* first met in stop_times.txt when several trips have the most.
C16_Theorem ==
    (Parsed /\ zip_path /\ AllNumbers) =>
        /\ {representative[k].key : k \in 1..Len(representative)}
             = {r \in {"A", "L"} : TripsOfRoute(r) # {}}
        /\ \A k \in 1..Len(representative) :
              IsAscendingOrderOf(representative[k].value,
                                 RowsOfTrip(FirstLongestTrip(representative[k].key)))

\* C16's case: two trips of route A tie for the most stops with different stops,
\* and the sequence chosen is that of the one met first.
C16_Witness ==
    /\ Parsed /\ zip_path /\ AllNumbers
    /\ TripsOfRoute("A") = {"T1", "T2"}
    /\ Cardinality(RowsOfTrip("T1")) = Cardinality(RowsOfTrip("T2"))
    /\ FirstRow("T2") < FirstRow("T1")
    /\ ~IsAscendingOrderOf(DictGet(representative, "A"), RowsOfTrip("T1"))
    /\ IsAscendingOrderOf(DictGet(representative, "A"), RowsOfTrip("T2"))

(***************************************************************************)
(* Two /api/route-polylines requests served by two threads. The first is   *)
(* the request of SpecStatic, with its steps as they are there; the second *)
(* is taken through download_gtfs_static one file operation at a time, so  *)
(* that the first can run between its open() and its write(). The clock    *)
(* does not move while the two are served.                                 *)
(***************************************************************************)
\* what the second request leaves alone: the first request's own variables
readerVars == <<ppc, zip_path, route_polylines, stops_list, representative,
                polyline_stops, presponse, prequests, force>>

InitConcurrent ==
    /\ staticUpstream \in [ok : BOOLEAN, archive : Editions]
    /\ \E old \in Editions :
          zip_file = [exists |-> TRUE, archive |-> old, complete |-> TRUE, mtime |-> 0]
    /\ wall \in {AnHour, GTFS_CACHE_TTL}
    /\ downloads = <<[at |-> 0, ok |-> TRUE]>>
    /\ calls = 1
    /\ force = FALSE
    /\ ppc = "download"
    /\ zip_path = FALSE
    /\ route_polylines = <<>>
    /\ stops_list = <<>>
    /\ representative = <<>>
    /\ polyline_stops = <<>>
    /\ presponse = NoPolylines
    /\ prequests = 2
    /\ wpc = "download"
    /\ wresp = NoArchive
    /\ wzip_path = FALSE
    /\ wresponse = NoPolylines
    /\ StatusIdle /\ ArrivalsIdle

\* lines 467-470: the second request finds the file fresh
WriterCached ==
    /\ wpc = "download"
    /\ Fresh
    /\ wzip_path' = TRUE
    /\ wpc' = "parse"
    /\ calls' = calls + 1
    /\ UNCHANGED <<staticUpstream, zip_file, wall, downloads, wresp, wresponse, readerVars>>
    /\ UNCHANGED <<statusVars, arrivalVars>>

\* lines 467-473: it finds the file stale and gets the archive
WriterGet ==
    /\ wpc = "download"
    /\ ~Fresh
    /\ staticUpstream.ok
    /\ downloads' = Append(downloads, Download(TRUE))
    /\ wresp' = staticUpstream.archive
    /\ wpc' = "open"
    /\ calls' = calls + 1
    /\ UNCHANGED <<staticUpstream, zip_file, wall, wzip_path, wresponse, readerVars>>
    /\ UNCHANGED <<statusVars, arrivalVars>>

\* lines 467-479: it finds the file stale and the download raises
WriterGetFails ==
    /\ wpc = "download"
    /\ ~Fresh
    /\ ~staticUpstream.ok
    /\ downloads' = Append(downloads, Download(FALSE))
    /\ wzip_path' = FALSE
    /\ wpc' = "parse"
    /\ calls' = calls + 1
    /\ UNCHANGED <<staticUpstream, zip_file, wall, wresp, wresponse, readerVars>>
    /\ UNCHANGED <<statusVars, arrivalVars>>

\* line 474: open(GTFS_ZIP_PATH, 'wb') truncates the file in place
WriterOpen ==
    /\ wpc = "open"
    /\ zip_file' = [exists |-> TRUE, archive |-> NoArchive, complete |-> FALSE,
                    mtime |-> wall]
    /\ wpc' = "write"
    /\ UNCHANGED <<staticUpstream, wall, calls, downloads, wresp, wzip_path, wresponse,
                   readerVars>>
    /\ UNCHANGED <<statusVars, arrivalVars>>

\* lines 475-476: the body is written, the file closed and the path returned
WriterWrite ==
    /\ wpc = "write"
    /\ zip_file' = Written(wresp)
    /\ wzip_path' = TRUE
    /\ wpc' = "parse"
    /\ UNCHANGED <<staticUpstream, wall, calls, downloads, wresp, wresponse, readerVars>>
    /\ UNCHANGED <<statusVars, arrivalVars>>

\* lines 486-604: the second request parses the file and answers
WriterRespond ==
    /\ wpc = "parse"
    /\ LET parsed == IF wzip_path THEN ReadZip(zip_file) ELSE EmptyParse
       IN  wresponse' = [success |-> TRUE,
                         routes |-> [k \in 1..Len(parsed.route_polylines) |->
                                        parsed.route_polylines[k].value],
                         stops |-> parsed.stops_list, http |-> 200]
    /\ wpc' = "done"
    /\ UNCHANGED <<staticUpstream, zip_file, wall, calls, downloads, wresp, wzip_path,
                   readerVars>>
    /\ UNCHANGED <<statusVars, arrivalVars>>

NextConcurrent ==
    \/ DownloadCached
    \/ DownloadFresh
    \/ DownloadFails
    \/ ParseStatic
    \/ RespondPolylines
    \/ WriterCached
    \/ WriterGet
    \/ WriterGetFails
    \/ WriterOpen
    \/ WriterWrite
    \/ WriterRespond

SpecConcurrent == InitConcurrent /\ [][NextConcurrent]_vars

(***************************************************************************)
(* Claim about the cache file under concurrent requests.                   *)
(***************************************************************************)
\* the first request opens the file it was given and reads the tables
ReaderReads == ppc = "parse" /\ ppc' = "respond" /\ zip_path

\* C15: while the second request rewrites the cache file, the file the first request
\* is given as fresh and reads is a whole archive, the old one or the new one, never
\* a file cut short.
C15_ReaderSeesWholeArchive ==
    [][ReaderReads => (zip_file.complete /\ zip_file.archive \in Editions)]_vars

====
